---------------------------- MODULE Spec2Model ----------------------------
(***************************************************************************)
(* Model of the invite tracker bot (src/bot.py): the Firestore documents   *)
(* it keeps (groups, per-group inviter counters, per-group join log) and   *)
(* the handlers that read and write them: handle_new_members (with the     *)
(* transactional increment_inviter_count), check_message_permission,       *)
(* register_group, set_requirement, leaderboard_command, show_leaderboard   *)
(* and group_stats.                                                        *)
(*                                                                         *)
(* A join handler advances one store operation at a time; the command and  *)
(* message handlers are single steps. Every store operation may fail; the  *)
(* code's except branches decide what happens then.                        *)
(*                                                                         *)
(* Spec is the bot as main() builds it: one Application without            *)
(* concurrent_updates, which handles one update at a time. ConcSpec is the *)
(* join handling of several bot processes on one store, whose handlers     *)
(* interleave. StatsSpec is the join handling and the statistics with the  *)
(* clock advancing; in the other two the clock stands still.               *)
(***************************************************************************)
EXTENDS Integers, Sequences, FiniteSets, TLC

\* ------------------------------------------------------------ bounds
\* New members the join messages delivered carry in all (redeliveries not
\* counted): one message with all of them, or several with fewer.
MaxJoins == 2
\* Largest threshold an administrator passes to /setrequirement.
MaxReq == 1
\* Store operations of join handlers that fail in one behaviour.
MaxFaults == 1
\* Join messages the transport delivers a second time.
MaxRedeliveries == 1
\* Weeks the clock advances while the statistics are watched.
MaxWeeks == 2

\* ------------------------------------------------------- program constants
REQUIRED_INVITES == 3
\* Attempts of a firestore transaction before it gives up (library default
\* of db.transaction()).
MAX_ATTEMPTS == 5
\* Entries a leaderboard shows: sorted(...)[:10].
PAGE_SIZE == 10
\* The window of the recent statistics: timedelta(days=7).
WINDOW_DAYS == 7

\* ------------------------------------------------------------ domains
\* Every store path starts at groups/{chat_id}: one group is modelled.
Groups == {1}
\* Telegram user ids; their decimal strings name the counter documents.
Users == {2, 10}
\* The bot's own account, and the account of another bot.
Bot == 0
OtherBot == 1
\* member.is_bot: the account is a bot's, this bot's or any other's.
IsBot(m) == m \in {Bot, OtherBot}
Members == Users \cup {Bot, OtherBot}
Handlers == {1, 2}
Titles == {"title"}
\* A document that does not exist (doc.exists is False).
NoDoc == [exists |-> FALSE]
\* invited_by = None
None == -1
NoOut == [op |-> "none"]

VARIABLES
  groups,      \* groups/{id}: NoDoc or the group document
  inviters,    \* groups/{id}/inviters/{uid}.invite_count; 0: no document
  joins,       \* groups/{id}/member_joins: bag of rows, as row -> copies
  hs,          \* the join handlers in flight, one record per slot: where the
               \* handler is (pc, member i of members), the transaction's
               \* snapshot and attempts, what increment_inviter_count returned
               \* (new_count), whether it committed (credited) and the count
               \* named in the thank-you just sent (reply)
  delivered,   \* new members the join messages delivered so far carried
  out,         \* what the command or message handler that just ran did
  passed,      \* history: (group, user) the gate let through on their count
               \* or the group's setting, since that setting last changed
  owed,        \* history: distinct invited joins delivered, per (group, inviter)
  commits,     \* history: increment transactions committed, per (group, inviter)
  faults,      \* history: store operations of join handlers that have failed
  redeliveries, \* history: join messages delivered a second time
  now          \* the clock, in days

vars == <<groups, inviters, joins, hs, delivered, out, passed, owed, commits, faults,
          redeliveries, now>>

\* A store operation fails or not; the failures of one behaviour are bounded.
Failing == IF faults < MaxFaults THEN {FALSE, TRUE} ELSE {FALSE}
Failed(n) == faults' = faults + n

\* ------------------------------------------------------------ documents
\* The fields save_group_to_db always writes (timestamps left out).
GroupDoc(title) ==
  [exists |-> TRUE,
   group_name |-> title,
   invite_requirement_enabled |-> TRUE,
   required_invites |-> REQUIRED_INVITES]

\* ref.set({...}, merge=True): every field named in the call is overwritten,
\* fields not named are kept. save_group_to_db names all the fields modelled.
SaveGroupToDb(g, title) == [groups EXCEPT ![g] = GroupDoc(title)]

\* get_all_groups_from_db: the ids of the group documents; {} on a failure.
GetAllGroupsFromDb(fail) ==
  IF fail THEN {} ELSE {g \in Groups : groups[g] # NoDoc}

DefaultSettings ==
  [invite_requirement_enabled |-> TRUE, required_invites |-> REQUIRED_INVITES]

\* What get_group_settings reads from a store holding the group documents G.
SettingsIn(G, g) ==
  IF G[g] = NoDoc
    THEN DefaultSettings
    ELSE [invite_requirement_enabled |-> G[g].invite_requirement_enabled,
          required_invites |-> G[g].required_invites]

\* get_group_settings: the document, or the defaults when it does not exist
\* or the read fails.
GetGroupSettings(g, fail) ==
  IF fail THEN DefaultSettings ELSE SettingsIn(groups, g)

\* get_user_invite_count: the stored count, 0 without a document or on a
\* failed read.
GetUserInviteCount(g, u, fail) == IF fail THEN 0 ELSE inviters[g][u]

\* can_user_message: <<can_message, current_invites, required_invites>>.
\* Its own except branch is unreachable: both reads swallow their failures.
CanUserMessage(g, u, settingsFail, countFail) ==
  LET settings == GetGroupSettings(g, settingsFail) IN
  IF ~settings.invite_requirement_enabled
    THEN <<TRUE, 0, 0>>
    ELSE LET required == settings.required_invites
             current == GetUserInviteCount(g, u, countFail)
         IN <<current >= required, current, required>>

\* datetime.utcnow(): the present instant, without a time zone.
UtcNow == [t |-> now, aware |-> FALSE]

\* A timestamp read back from a document: the store keeps the instant, and
\* the client library hands it out as a datetime in the UTC zone.
FromStore(t) == [t |-> t, aware |-> TRUE]

\* a >= b on datetimes raises TypeError when one carries a zone and the other
\* does not.
Comparable(a, b) == a.aware = b.aware

\* log_member_join: one more row in the group's log, stamped with the
\* present instant.
Row(member, invited_by) ==
  [user_id |-> member, invited_by |-> invited_by, joined_at |-> UtcNow.t,
   is_invited |-> (invited_by # None)]
Copies(g, r) == IF r \in DOMAIN joins[g] THEN joins[g][r] ELSE 0
LogWithoutInviter(g, member, invited_by) ==
  LET r == Row(member, None) IN
  [joins EXCEPT ![g] =
     [x \in DOMAIN joins[g] \cup {r} |->
        IF x = r THEN Copies(g, r) + 1 ELSE joins[g][x]]]

LogMemberJoin(g, member, invited_by) ==
  LET r == Row(member, invited_by) IN
  [joins EXCEPT ![g] =
     [x \in DOMAIN joins[g] \cup {r} |->
        IF x = r THEN Copies(g, r) + 1 ELSE joins[g][x]]]

\* The users still known to have passed the gate once the group documents
\* are G: those of the groups whose settings G leaves as they are.
StillPassed(G) ==
  {p \in passed : SettingsIn(G, p[1]) = SettingsIn(groups, p[1])}

\* ------------------------------------------------------------ initial state
IdleRec ==
  [pc |-> "idle", chat |-> 0, from |-> 0, members |-> <<>>, i |-> 0,
   snapshot |-> 0, attempts |-> 0, new_count |-> 0, credited |-> FALSE,
   reply |-> None, again |-> FALSE]

Init ==
  /\ groups = [g \in Groups |-> NoDoc]
  /\ inviters = [g \in Groups |-> [u \in Users |-> 0]]
  /\ joins = [g \in Groups |-> <<>>]
  /\ hs = [h \in Handlers |-> IdleRec]
  /\ delivered = 0
  /\ out = NoOut
  /\ passed = {}
  /\ owed = [g \in Groups |-> [u \in Users |-> 0]]
  /\ commits = [g \in Groups |-> [u \in Users |-> 0]]
  /\ faults = 0
  /\ redeliveries = 0
  /\ now = 0

\* ------------------------------------------------------------ join handler
\* The new_chat_members lists a join message may carry.
MemberLists == UNION {[1..n -> Members] : n \in 1..MaxJoins}

\* `for member in new_members`, from index i on: a bot is skipped; a member
\* other than the sender goes to the increment, the sender itself to the
\* link-join branch; past the end the handler returns.
RECURSIVE NextMemberNoSelfCheck(_, _, _)
NextMemberNoSelfCheck(from, members, i) ==
  IF i > Len(members) THEN [pc |-> "done", i |-> 0]
  ELSE IF IsBot(members[i]) THEN NextMemberNoSelfCheck(from, members, i + 1)
  ELSE [pc |-> "txn_read", i |-> i]

RECURSIVE NextMember(_, _, _)
NextMember(from, members, i) ==
  IF i > Len(members) THEN [pc |-> "done", i |-> 0]
  ELSE IF IsBot(members[i]) THEN NextMember(from, members, i + 1)
  ELSE IF from # members[i] THEN [pc |-> "txn_read", i |-> i]
  ELSE [pc |-> "self", i |-> i]

InviterIsMember(r) == r.members[r.i]

\* inviter_id = message.from_user.id: whose counter the handler increments.
Inviter(r) == r.from

\* Invited joins a message carries: its members that are people and not the
\* sender.
InvitedIn(from, members) ==
  Cardinality({k \in 1..Len(members) : ~IsBot(members[k]) /\ members[k] # from})

\* No join handler is at work.
Quiescent == \A h \in Handlers : hs[h].pc \in {"idle", "done"}

\* The dispatcher is free to take the next update.
Free == out = NoOut /\ \A h \in Handlers : hs[h].pc = "idle"

\* The transport hands a new join message to a free handler.
Deliver(h, g, a, ms) ==
  /\ hs[h].pc = "idle"
  /\ \A k \in Handlers : k < h => hs[k].pc # "idle"
  /\ delivered + Len(ms) <= MaxJoins
  /\ delivered' = delivered + Len(ms)
  /\ hs' = [hs EXCEPT ![h] =
       [IdleRec EXCEPT !.pc = "ensure", !.chat = g, !.from = a, !.members = ms]]
  /\ owed' = [owed EXCEPT ![g][a] = @ + InvitedIn(a, ms)]
  /\ UNCHANGED <<groups, inviters, joins, out, passed, commits, faults,
                 redeliveries, now>>

\* The transport delivers a handled join message once more (at-least-once
\* delivery); the handler has no record of having seen it.
Redeliver(h) ==
  /\ hs[h].pc = "done"
  /\ ~hs[h].again
  /\ redeliveries < MaxRedeliveries
  /\ hs' = [hs EXCEPT ![h] =
       [IdleRec EXCEPT !.pc = "ensure", !.chat = hs[h].chat, !.from = hs[h].from,
                       !.members = hs[h].members, !.again = TRUE]]
  /\ redeliveries' = redeliveries + 1
  /\ UNCHANGED <<groups, inviters, joins, delivered, out, passed, owed, commits,
                 faults, now>>

\* The delivery is acknowledged; the slot is free again.
Ack(h) ==
  /\ hs[h].pc = "done"
  /\ hs' = [hs EXCEPT ![h] = IdleRec]
  /\ UNCHANGED <<groups, inviters, joins, delivered, out, passed, owed, commits,
                 faults, redeliveries, now>>

\* handle_new_members, "Ensure group is registered": the listing, then
\* save_group_to_db when the chat is not in it. save_group_to_db re-raises a
\* failed write, which ends the handler.
EnsureGroup(h) ==
  /\ hs[h].pc = "ensure"
  /\ \E readFails \in Failing, saveFails \in Failing, title \in Titles :
       LET r == hs[h]
           known == r.chat \in GetAllGroupsFromDb(readFails)
           nxt == NextMember(r.from, r.members, 1)
           saved == IF known \/ saveFails THEN groups
                    ELSE SaveGroupToDb(r.chat, title)
       IN
       /\ known => ~saveFails
       /\ ~(readFails /\ saveFails)
       /\ groups' = saved
       /\ passed' = StillPassed(saved)
       /\ hs' = [hs EXCEPT ![h] =
            IF ~known /\ saveFails
              THEN [r EXCEPT !.pc = "done", !.i = 0]
              ELSE [r EXCEPT !.pc = nxt.pc, !.i = nxt.i]]
       /\ Failed(IF readFails \/ saveFails THEN 1 ELSE 0)
  /\ UNCHANGED <<inviters, joins, delivered, out, owed, commits, redeliveries,
                 now>>

\* update_in_transaction, doc_ref.get(transaction=transaction): the count
\* in the snapshot, 0 when the document does not exist.
ReadCounter(g, u) == inviters[g][u]

NewCountForgets(snapshot) == 1

\* update_in_transaction: the count to write, from the snapshot read.
NewCount(snapshot) == IF snapshot > 0 THEN snapshot + 1 ELSE 1

NoConflictCheck(g, u, snapshot) == FALSE

\* The commit of a firestore transaction goes through only if the document
\* read is still as it was read. Every write of a counter document changes
\* its count, so the count tells whether it was written since.
Conflict(g, u, snapshot) == inviters[g][u] # snapshot

\* increment_inviter_count, the read of the transaction. A failed read is
\* caught by the function's except branch, which returns 0.
TxnRead(h) ==
  /\ hs[h].pc = "txn_read"
  /\ \E fail \in Failing :
       LET r == hs[h] IN
       /\ hs' = [hs EXCEPT ![h] =
            IF fail THEN [r EXCEPT !.pc = "log", !.new_count = 0, !.reply = None]
            ELSE [r EXCEPT !.pc = "txn_commit", !.reply = None,
                           !.snapshot = ReadCounter(r.chat, Inviter(r))]]
       /\ Failed(IF fail THEN 1 ELSE 0)
  /\ UNCHANGED <<groups, inviters, joins, delivered, out, passed, owed, commits,
                 redeliveries, now>>

\* increment_inviter_count, transaction.set and the commit, then the update
\* of the group's last_updated. A conflicting commit is retried from the read
\* until the attempts run out; a failure of the commit, or of the group
\* update after it, ends in the except branch, which returns 0.
TxnCommit(h) ==
  /\ hs[h].pc = "txn_commit"
  /\ \E fail \in IF TRUE \in Failing THEN {"no", "commit", "touch"} ELSE {"no"} :
       LET r == hs[h]
           g == r.chat
           u == Inviter(r)
           conflict == Conflict(g, u, r.snapshot)
           exhausted == r.attempts + 1 >= MAX_ATTEMPTS
           committed == fail # "commit" /\ ~conflict
           new_count == NewCount(r.snapshot)
       IN
       /\ conflict => fail = "no"
       /\ inviters' = IF committed THEN [inviters EXCEPT ![g][u] = new_count]
                      ELSE inviters
       /\ commits' = IF committed THEN [commits EXCEPT ![g][u] = @ + 1]
                     ELSE commits
       /\ hs' = [hs EXCEPT ![h] =
            IF committed
              THEN [r EXCEPT !.pc = "log", !.snapshot = 0, !.credited = TRUE,
                             !.new_count = IF fail = "touch" THEN 0 ELSE new_count]
            ELSE IF conflict /\ ~exhausted
              THEN [r EXCEPT !.pc = "txn_read", !.snapshot = 0,
                             !.attempts = @ + 1]
            ELSE [r EXCEPT !.pc = "log", !.snapshot = 0, !.new_count = 0]]
       /\ Failed(IF fail # "no" \/ (conflict /\ exhausted) THEN 1 ELSE 0)
  /\ UNCHANGED <<groups, joins, delivered, out, passed, owed, redeliveries,
                 now>>

\* handle_new_members after the increment: log_member_join (a failed write is
\* swallowed), then the thank-you reply, which names the count that
\* increment_inviter_count returned; on to the next member.
LogInvited(h) ==
  /\ hs[h].pc = "log"
  /\ \E logFails \in Failing :
       LET r == hs[h]
           nxt == NextMember(r.from, r.members, r.i + 1)
       IN
       /\ joins' = IF logFails THEN joins
                   ELSE LogMemberJoin(r.chat, r.members[r.i], Inviter(r))
       /\ hs' = [hs EXCEPT ![h] =
            [r EXCEPT !.pc = nxt.pc, !.i = nxt.i, !.new_count = 0,
                      !.attempts = 0, !.credited = FALSE,
                      !.reply = r.new_count]]
       /\ Failed(IF logFails THEN 1 ELSE 0)
  /\ UNCHANGED <<groups, inviters, delivered, out, passed, owed, commits,
                 redeliveries, now>>

\* handle_new_members, "User joined via link": the sender is the new member.
\* The join is logged without an inviter and welcomed; no counter is touched.
SelfJoin(h) ==
  /\ hs[h].pc = "self"
  /\ \E logFails \in Failing :
       LET r == hs[h]
           nxt == NextMember(r.from, r.members, r.i + 1)
       IN
       /\ joins' = IF logFails THEN joins
                   ELSE LogMemberJoin(r.chat, r.members[r.i], None)
       /\ hs' = [hs EXCEPT ![h] =
            [r EXCEPT !.pc = nxt.pc, !.i = nxt.i, !.reply = None]]
       /\ Failed(IF logFails THEN 1 ELSE 0)
  /\ UNCHANGED <<groups, inviters, delivered, out, passed, owed, commits,
                 redeliveries, now>>

\* ------------------------------------------------------------ commands
\* Who sends a command: in a private chat (chat.type), or in a group, where
\* get_chat_member gives the sender's status or fails.
Callers == {"private", "administrator", "member", "error"}

\* context.args: the words after the command; a word is a number or not.
Word(n) == [num |-> TRUE, val |-> n]
Junk == [num |-> FALSE, val |-> 0]
ArgLists ==
  {<<>>, <<Junk>>, <<Word(0), Word(0)>>} \cup {<<Word(n)>> : n \in (-1)..MaxReq}

\* register_group: what the command answers.
RegisterReply(caller, saveFails) ==
  IF caller = "private" THEN "groups_only"
  ELSE IF caller = "error" THEN "permission_error"
  ELSE IF caller # "administrator" THEN "admins_only"
  ELSE IF saveFails THEN "register_error"
  ELSE "registered"

\* register_group: the checks, then save_group_to_db.
RegisterGroup(g) ==
  /\ Free
  /\ \E caller \in Callers, saveFails \in BOOLEAN, title \in Titles :
       LET reply == RegisterReply(caller, saveFails)
           saved == IF reply = "registered" THEN SaveGroupToDb(g, title)
                    ELSE groups
       IN
       /\ saveFails => caller = "administrator"
       /\ groups' = saved
       /\ passed' = StillPassed(saved)
       /\ out' = [op |-> "register", chat |-> g, caller |-> caller,
                  reply |-> reply]
  /\ UNCHANGED <<inviters, joins, hs, delivered, owed, commits, faults,
                 redeliveries, now>>

SetRequirementReplyNoSignCheck(g, caller, args, updateFails) ==
  IF caller = "private" THEN "groups_only"
  ELSE IF caller = "error" THEN "none"
  ELSE IF caller # "administrator" THEN "admins_only"
  ELSE IF Len(args) # 1 THEN "usage"
  ELSE IF ~args[1].num THEN "invalid_number"
  ELSE IF updateFails \/ groups[g] = NoDoc THEN "update_error"
  ELSE IF args[1].val = 0 THEN "disabled"
  ELSE "updated"

\* set_requirement: what the command answers. "none": it returns without a
\* reply (the admin check failed). The document update fails on a store
\* failure and when the group has no document.
SetRequirementReply(g, caller, args, updateFails) ==
  IF caller = "private" THEN "groups_only"
  ELSE IF caller = "error" THEN "none"
  ELSE IF caller # "administrator" THEN "admins_only"
  ELSE IF Len(args) # 1 THEN "usage"
  ELSE IF ~args[1].num THEN "invalid_number"
  ELSE IF args[1].val < 0 THEN "must_be_non_negative"
  ELSE IF updateFails \/ groups[g] = NoDoc THEN "update_error"
  ELSE IF args[1].val = 0 THEN "disabled"
  ELSE "updated"

UpdateThresholdOnly(g, n) == [groups EXCEPT ![g].required_invites = n]

\* set_requirement: the update of the group document.
UpdateRequirement(g, n) ==
  [groups EXCEPT ![g].required_invites = n,
                 ![g].invite_requirement_enabled = (n > 0)]

SetRequirement(g) ==
  /\ Free
  /\ \E caller \in Callers, args \in ArgLists, updateFails \in BOOLEAN :
       LET reply == SetRequirementReply(g, caller, args, updateFails)
           saved == IF reply \in {"disabled", "updated"}
                      THEN UpdateRequirement(g, args[1].val)
                      ELSE groups
       IN
       \* the words are read only once the checks have passed
       /\ caller # "administrator" => args = <<>>
       /\ updateFails => reply = "update_error" /\ groups[g] # NoDoc
       /\ groups' = saved
       /\ passed' = StillPassed(saved)
       /\ out' = [op |-> "setrequirement", chat |-> g, caller |-> caller,
                  args |-> args, reply |-> reply]
  /\ UNCHANGED <<inviters, joins, hs, delivered, owed, commits, faults,
                 redeliveries, now>>

\* ------------------------------------------------------------ access gate
\* check_message_permission: administrators pass, and so does everybody when
\* the status check fails; for the others can_user_message decides. A blocked
\* message is deleted and a notice sent that tells the invites remaining
\* (required - current); either call may fail, and a failed deletion skips
\* the notice.
CheckMessagePermission(g, u) ==
  /\ Free
  /\ \E status \in {"administrator", "member", "error"},
        settingsFail \in BOOLEAN, countFail \in BOOLEAN,
        deleteFails \in BOOLEAN, notifyFails \in BOOLEAN :
       LET evaluated == status = "member"
           res == CanUserMessage(g, u, settingsFail, countFail)
           blocked == evaluated /\ ~res[1]
           enabled == GetGroupSettings(g, settingsFail).invite_requirement_enabled
       IN
       /\ ~evaluated => ~settingsFail
       /\ ~(evaluated /\ enabled) => ~countFail
       /\ ~blocked => ~deleteFails
       /\ (~blocked \/ deleteFails) => ~notifyFails
       /\ out' = [op |-> "message", chat |-> g, user |-> u, status |-> status,
                  settings_failed |-> settingsFail, count_failed |-> countFail,
                  can_message |-> (~evaluated \/ res[1]),
                  current |-> IF evaluated THEN res[2] ELSE 0,
                  required |-> IF evaluated THEN res[3] ELSE 0,
                  remaining |-> IF blocked THEN res[3] - res[2] ELSE 0,
                  deleted |-> (blocked /\ ~deleteFails),
                  notified |-> (blocked /\ ~deleteFails /\ ~notifyFails)]
       /\ passed' = IF evaluated /\ res[1] /\ ~settingsFail /\ ~countFail
                      THEN passed \cup {<<g, u>>}
                      ELSE passed
  /\ UNCHANGED <<groups, inviters, joins, hs, delivered, owed, commits, faults,
                 redeliveries, now>>

\* ------------------------------------------------------------ reads
\* str(user_id), the id of a user's counter document: the decimal digits,
\* most significant first.
RECURSIVE Str(_)
Str(n) == IF n < 10 THEN <<n>> ELSE Append(Str(n \div 10), n % 10)

\* The order of document ids: strings compare character by character, and a
\* proper prefix comes first.
RECURSIVE StrLess(_, _)
StrLess(a, b) ==
  IF a = <<>> THEN b # <<>>
  ELSE IF b = <<>> THEN FALSE
  ELSE IF Head(a) # Head(b) THEN Head(a) < Head(b)
  ELSE StrLess(Tail(a), Tail(b))

\* collection.stream() without an order: the documents in the order of their
\* ids.
RECURSIVE Stream(_)
Stream(ids) ==
  IF ids = {} THEN <<>>
  ELSE LET first == CHOOSE u \in ids :
                      \A v \in ids \ {u} : StrLess(Str(u), Str(v))
       IN <<first>> \o Stream(ids \ {first})

ItemAsFirstWritten(g, u) == [user_id |-> u, invite_count |-> 1]

\* A counter document as the scan reads it.
Item(g, u) == [user_id |-> u, invite_count |-> inviters[g][u]]

\* get_inviter_stats_from_db: the dict {int(doc.id): doc.to_dict()} as the
\* sequence of its items, in the order the scan gave them; empty on a failed
\* scan.
GetInviterStatsFromDb(g, fail) ==
  IF fail THEN <<>>
  ELSE LET ids == Stream({u \in Users : inviters[g][u] > 0})
       IN [k \in 1..Len(ids) |-> Item(g, ids[k])]

\* sorted(items, key=invite_count, reverse=True): the sort is stable, so
\* items of equal count stay in the order they came in.
Insert(x, s) ==
  LET k == Cardinality({i \in 1..Len(s) : s[i].invite_count > x.invite_count})
  IN SubSeq(s, 1, k) \o <<x>> \o SubSeq(s, k + 1, Len(s))

RECURSIVE Sorted(_)
Sorted(items) ==
  IF items = <<>> THEN <<>> ELSE Insert(Head(items), Sorted(Tail(items)))

\* sorted(...)[:10]
SortedInviters(items) ==
  LET s == Sorted(items)
  IN SubSeq(s, 1, IF Len(s) < PAGE_SIZE THEN Len(s) ELSE PAGE_SIZE)

\* How many documents of the group's join log are among the given rows.
RECURSIVE CountRows(_, _)
CountRows(g, rows) ==
  IF rows = {} THEN 0
  ELSE LET r == CHOOSE x \in rows : TRUE
       IN joins[g][r] + CountRows(g, rows \ {r})

ZeroStatistics ==
  [total_members |-> 0, total_invited |-> 0, joined_last_7 |-> 0,
   invited_last_7 |-> 0, active_inviters |-> 0]

\* get_group_statistics. The filter for the last seven days compares the
\* joined_at of each row, as read from the store, with utcnow() - 7 days; an
\* exception anywhere in the function, a failed scan of the log or a
\* comparison that raises, ends in the except branch, which returns zeros.
\* The scan of the counters swallows its own failure.
GetGroupStatistics(g, joinsFail, invitersFail) ==
  LET all_joins == DOMAIN joins[g]
      seven_days_ago == [UtcNow EXCEPT !.t = @ - WINDOW_DAYS]
      raises == \E r \in all_joins :
                  ~Comparable(FromStore(r.joined_at), seven_days_ago)
      recent_joins == {r \in all_joins :
                         FromStore(r.joined_at).t >= seven_days_ago.t}
      inviter_stats == GetInviterStatsFromDb(g, invitersFail)
  IN
  IF joinsFail \/ raises
    THEN ZeroStatistics
    ELSE [total_members |-> CountRows(g, all_joins),
          total_invited |-> CountRows(g, {r \in all_joins : r.is_invited}),
          joined_last_7 |-> CountRows(g, recent_joins),
          invited_last_7 |-> CountRows(g, {r \in recent_joins : r.is_invited}),
          active_inviters |->
            Cardinality({k \in 1..Len(inviter_stats) :
                           inviter_stats[k].invite_count > 0})]

\* leaderboard_command in a group: the board it shows ("no_invites" when
\* the scan gives no counter); in a private chat it lists the groups.
LeaderboardCommand(g) ==
  /\ Free
  /\ \E private \in BOOLEAN, fail \in BOOLEAN :
       LET stats == GetInviterStatsFromDb(g, fail)
           known == GetAllGroupsFromDb(fail)
       IN
       out' = [op |-> "leaderboard", via |-> "command", chat |-> g,
               private |-> private, failed |-> fail,
               reply |-> IF private
                           THEN IF known = {} THEN "no_groups" ELSE "group_list"
                           ELSE IF stats = <<>> THEN "no_invites" ELSE "board",
               board |-> IF private THEN <<>> ELSE SortedInviters(stats)]
  /\ UNCHANGED <<groups, inviters, joins, hs, delivered, passed, owed, commits,
                 faults, redeliveries, now>>

\* show_leaderboard, the callback of a leaderboard button: the same board
\* for the group named in the callback data, under the group's name when
\* the listing has it. A failed call to Telegram ends in "load_error".
ShowLeaderboard(g) ==
  /\ Free
  /\ \E fail \in BOOLEAN, listFails \in BOOLEAN, editFails \in BOOLEAN :
       LET stats == GetInviterStatsFromDb(g, fail)
           named == g \in GetAllGroupsFromDb(listFails)
       IN
       /\ stats = <<>> => ~listFails
       /\ editFails => ~fail /\ ~listFails
       /\ out' = [op |-> "leaderboard", via |-> "callback", chat |-> g,
                  private |-> FALSE, failed |-> fail,
                  list_failed |-> listFails,
                  reply |-> IF editFails THEN "load_error"
                            ELSE IF stats = <<>> THEN "no_invites" ELSE "board",
                  board |-> IF editFails THEN <<>> ELSE SortedInviters(stats),
                  named |-> (stats # <<>> /\ named)]
  /\ UNCHANGED <<groups, inviters, joins, hs, delivered, passed, owed, commits,
                 faults, redeliveries, now>>

\* group_stats in a group: the group must be in the listing; then the
\* statistics are shown.
GroupStats(g) ==
  /\ Free
  /\ \E listFails \in BOOLEAN, joinsFail \in BOOLEAN, invitersFail \in BOOLEAN :
       LET known == g \in GetAllGroupsFromDb(listFails) IN
       /\ ~known => ~joinsFail /\ ~invitersFail
       /\ joinsFail => ~invitersFail
       /\ out' = [op |-> "groupstats", chat |-> g,
                  list_failed |-> listFails, joins_failed |-> joinsFail,
                  inviters_failed |-> invitersFail,
                  reply |-> IF known THEN "stats" ELSE "not_registered",
                  stats |-> IF known
                              THEN GetGroupStatistics(g, joinsFail, invitersFail)
                              ELSE ZeroStatistics]
  /\ UNCHANGED <<groups, inviters, joins, hs, delivered, passed, owed, commits,
                 faults, redeliveries, now>>

\* A week goes by while the bot is idle.
Tick ==
  /\ Free
  /\ now < MaxWeeks * WINDOW_DAYS
  /\ now' = now + WINDOW_DAYS
  /\ UNCHANGED <<groups, inviters, joins, hs, delivered, out, passed, owed,
                 commits, faults, redeliveries>>

\* The handler has returned; the dispatcher takes the next update.
Returned ==
  /\ out # NoOut
  /\ out' = NoOut
  /\ UNCHANGED <<groups, inviters, joins, hs, delivered, passed, owed, commits,
                 faults, redeliveries, now>>

\* ------------------------------------------------------------ specification
\* One bot process: updates are handled one at a time, to the end.
Next ==
  \/ /\ Free
     /\ \E h \in Handlers, g \in Groups, a \in Users, ms \in MemberLists :
          Deliver(h, g, a, ms)
  \/ \E h \in Handlers : Redeliver(h)
  \/ \E h \in Handlers : Ack(h)
  \/ \E h \in Handlers : EnsureGroup(h)
  \/ \E h \in Handlers : TxnRead(h)
  \/ \E h \in Handlers : TxnCommit(h)
  \/ \E h \in Handlers : LogInvited(h)
  \/ \E h \in Handlers : SelfJoin(h)
  \/ \E g \in Groups : RegisterGroup(g)
  \/ \E g \in Groups : SetRequirement(g)
  \/ \E g \in Groups, u \in Users : CheckMessagePermission(g, u)
  \/ \E g \in Groups : LeaderboardCommand(g)
  \/ \E g \in Groups : ShowLeaderboard(g)
  \/ \E g \in Groups : GroupStats(g)
  \/ Returned

Spec == Init /\ [][Next]_vars

\* Several bot processes on one store: join handlers of different updates
\* interleave at their store operations.
ConcNext ==
  \/ \E h \in Handlers, g \in Groups, a \in Users, ms \in MemberLists :
       Deliver(h, g, a, ms)
  \/ \E h \in Handlers : Ack(h)
  \/ \E h \in Handlers : EnsureGroup(h)
  \/ \E h \in Handlers : TxnRead(h)
  \/ \E h \in Handlers : TxnCommit(h)
  \/ \E h \in Handlers : LogInvited(h)
  \/ \E h \in Handlers : SelfJoin(h)

ConcSpec == Init /\ [][ConcNext]_vars

\* The join log over the weeks: joins are handled, time passes, and the
\* statistics of the group are asked for.
StatsNext ==
  \/ /\ Free
     /\ \E h \in Handlers, g \in Groups, a \in Users, ms \in MemberLists :
          Deliver(h, g, a, ms)
  \/ \E h \in Handlers : Ack(h)
  \/ \E h \in Handlers : EnsureGroup(h)
  \/ \E h \in Handlers : TxnRead(h)
  \/ \E h \in Handlers : TxnCommit(h)
  \/ \E h \in Handlers : LogInvited(h)
  \/ \E h \in Handlers : SelfJoin(h)
  \/ \E g \in Groups : GroupStats(g)
  \/ Tick
  \/ Returned

StatsSpec == Init /\ [][StatsNext]_vars

\* ------------------------------------------------------------ properties
\* C1: idempotence under redelivery. When the handlers are at rest and no
\* store operation has failed, every counter is the number of distinct invited
\* joins delivered for it, whether or not a delivery was repeated.
C1_RedeliveryCountsOnce ==
  (Quiescent /\ faults = 0) =>
    \A g \in Groups, u \in Users : inviters[g][u] = owed[g][u]

\* C2: no lost updates under concurrency. Among interleaved join handlers
\* every committed increment is in the counter, and once the handlers are at
\* rest without a failed store operation each counter has grown by the number
\* of invited joins delivered for it.
C2_NoLostUpdates ==
  /\ \A g \in Groups, u \in Users : inviters[g][u] = commits[g][u]
  /\ (Quiescent /\ faults = 0) =>
       \A g \in Groups, u \in Users : inviters[g][u] = owed[g][u]

\* A handler lost the race for the counter, ran the transaction again and
\* stored the second invite.
C2_Witness ==
  \E h \in Handlers :
    /\ hs[h].pc = "log"
    /\ hs[h].attempts > 0
    /\ hs[h].new_count = 2
    /\ inviters[hs[h].chat][hs[h].from] = 2

\* C3: conservation. After N distinct invited joins by an inviter have been
\* handled without a store failure and without a repeated delivery, the
\* inviter's count is N, also when one message carried several members.
C3_Conservation ==
  (Quiescent /\ faults = 0 /\ redeliveries = 0) =>
    \A g \in Groups, u \in Users : GetUserInviteCount(g, u, FALSE) = owed[g][u]

\* One join message carried two invited members and the count is two.
C3_Witness ==
  /\ faults = 0
  /\ redeliveries = 0
  /\ \E h \in Handlers :
       /\ hs[h].pc = "done"
       /\ InvitedIn(hs[h].from, hs[h].members) = 2
       /\ owed[hs[h].chat][hs[h].from] = 2
       /\ inviters[hs[h].chat][hs[h].from] = 2

\* C4: gate decision. A message whose sender's status is known is allowed
\* exactly when gating is disabled for the group, the sender is an
\* administrator, or the sender's stored count reaches the stored threshold.
C4_GateDecision ==
  (out.op = "message" /\ out.status # "error") =>
    LET settings == SettingsIn(groups, out.chat) IN
    out.can_message <=>
      \/ ~settings.invite_requirement_enabled
      \/ out.status = "administrator"
      \/ inviters[out.chat][out.user] >= settings.required_invites

\* C5: counter monotonicity. A step never lowers a counter, and a counter
\* changes only by one, in the commit of a join handler's increment for that
\* inviter.
C5_CounterMonotone ==
  [][\A g \in Groups, u \in Users :
       /\ inviters'[g][u] >= inviters[g][u]
       /\ inviters'[g][u] # inviters[g][u] =>
            /\ inviters'[g][u] = inviters[g][u] + 1
            /\ \E h \in Handlers :
                 /\ hs[h].pc = "txn_commit"
                 /\ hs[h].chat = g
                 /\ hs[h].from = u
                 /\ hs[h].members[hs[h].i] # u]_vars

\* An invited join has raised a counter while a gate evaluation, a
\* registration and a threshold change had been handled before.
C5_Witness ==
  /\ \E g \in Groups, u \in Users : inviters[g][u] > 0
  /\ passed # {}
  /\ \E g \in Groups :
       groups[g] # NoDoc /\ groups[g].required_invites # REQUIRED_INVITES

\* C6: gate monotonicity. A user who was allowed to post under the group's
\* present threshold and gating flag is allowed again.
C6_GateMonotone ==
  (/\ out.op = "message"
   /\ out.status = "member"
   /\ <<out.chat, out.user>> \in passed) => out.can_message

\* C7: the gate fails open. When the read of the settings or of the count
\* fails, the message is allowed and stays.
C7_GateFailsOpen ==
  (out.op = "message" /\ (out.settings_failed \/ out.count_failed)) =>
    (out.can_message /\ ~out.deleted)

\* C8: self-join exclusion. The step that handles a member who is the sender
\* of the join message changes no counter, and unless the write of the log
\* fails it adds the row of that member with no inviter.
C8_SelfJoinExclusion ==
  [][\A h \in Handlers :
       (/\ hs[h].i > 0
        /\ hs[h].members[hs[h].i] = hs[h].from
        /\ hs'[h] # hs[h]) =>
         /\ inviters' = inviters
         /\ commits' = commits
         /\ faults' = faults =>
              joins' = LogMemberJoin(hs[h].chat, hs[h].from, None)]_vars

\* A self-join is in the log with no inviter and its handler has finished
\* with the user's counter at zero.
C8_Witness ==
  \E h \in Handlers :
    /\ hs[h].pc = "done"
    /\ hs[h].members = <<hs[h].from>>
    /\ Copies(hs[h].chat, Row(hs[h].from, None)) > 0
    /\ inviters[hs[h].chat][hs[h].from] = 0

\* C9: registration is an idempotent merge. Registering a group that is in
\* the store leaves its threshold and its gating flag as they were.
C9_RegisterKeepsThreshold ==
  [][\A g \in Groups :
       (/\ out'.op = "register"
        /\ out'.chat = g
        /\ out'.reply = "registered"
        /\ groups[g] # NoDoc) =>
         /\ groups'[g].required_invites = groups[g].required_invites
         /\ groups'[g].invite_requirement_enabled =
              groups[g].invite_requirement_enabled]_vars

\* C10: threshold validation. /setrequirement by an administrator with a
\* negative number is answered with the rejection and leaves every group
\* document, threshold and gating flag included, as it was.
C10_NegativeRejected ==
  [][(/\ out'.op = "setrequirement"
      /\ out'.caller = "administrator"
      /\ Len(out'.args) = 1
      /\ out'.args[1].num
      /\ out'.args[1].val < 0) =>
       /\ out'.reply = "must_be_non_negative"
       /\ groups' = groups]_vars

\* A negative threshold was rejected for a group whose threshold had been
\* changed before, and that threshold stands.
C10_Witness ==
  /\ out.op = "setrequirement"
  /\ out.reply = "must_be_non_negative"
  /\ groups[out.chat] # NoDoc
  /\ groups[out.chat].required_invites # REQUIRED_INVITES

\* C11: group configuration invariant. Every group document in the store has
\* a threshold that is not negative, and its gating flag is set exactly when
\* the threshold is above 0.
C11_GroupConfig ==
  \A g \in Groups :
    groups[g] # NoDoc =>
      /\ groups[g].required_invites >= 0
      /\ groups[g].invite_requirement_enabled <=> groups[g].required_invites > 0

\* A group whose threshold an administrator has set to 0 has its gating flag
\* off, after a join was handled in it.
C11_Witness ==
  \E g \in Groups :
    /\ groups[g] # NoDoc
    /\ groups[g].required_invites = 0
    /\ ~groups[g].invite_requirement_enabled
    /\ DOMAIN joins[g] # {}

\* C12: threshold 0 disables gating. While the stored threshold of a group is
\* the 0 that /setrequirement 0 wrote, every gate evaluation in the group
\* allows the message, whatever the sender's count.
C12_ZeroDisablesGate ==
  (/\ out.op = "message"
   /\ groups[out.chat] # NoDoc
   /\ groups[out.chat].required_invites = 0) => out.can_message

\* C13: blocked remainder. When the gate blocks a member, the remainder it
\* reports is the group's stored threshold less the member's stored count,
\* and is above 0.
C13_BlockedRemainder ==
  (out.op = "message" /\ out.status = "member" /\ ~out.can_message) =>
    /\ out.remaining =
         SettingsIn(groups, out.chat).required_invites - inviters[out.chat][out.user]
    /\ out.remaining > 0

\* C14: leaderboard order. A board shown for a group has at most ten entries,
\* holds every counter of the group when there are no more than ten, and is
\* ordered by count, highest first, users of equal count by ascending user id.
C14_LeaderboardOrder ==
  (out.op = "leaderboard" /\ out.reply = "board" /\ ~out.failed) =>
    LET board == out.board IN
    /\ Len(board) <= PAGE_SIZE
    /\ Cardinality({u \in Users : inviters[out.chat][u] > 0}) <= PAGE_SIZE =>
         {board[k] : k \in 1..Len(board)} =
           {Item(out.chat, u) : u \in {v \in Users : inviters[out.chat][v] > 0}}
    /\ \A i \in 1..Len(board), j \in 1..Len(board) :
         i < j =>
           \/ board[i].invite_count > board[j].invite_count
           \/ /\ board[i].invite_count = board[j].invite_count
              /\ board[i].user_id < board[j].user_id

\* C15: leaderboard freshness. A board read from the store after the
\* increments have returned lists every user with a committed increment (up
\* to the page size), each with the count of all the increments committed
\* for the user.
C15_LeaderboardFresh ==
  (out.op = "leaderboard" /\ ~out.private /\ ~out.failed
     /\ out.reply # "load_error") =>
    LET credited == {u \in Users : commits[out.chat][u] > 0}
        shown == {out.board[k] : k \in 1..Len(out.board)}
    IN
    /\ \A e \in shown : e.invite_count = commits[out.chat][e.user_id]
    /\ Cardinality(credited) <= PAGE_SIZE =>
         \A u \in credited :
           [user_id |-> u, invite_count |-> commits[out.chat][u]] \in shown

\* A board read after two increments of one user were committed shows the
\* count 2.
C15_Witness ==
  /\ out.op = "leaderboard"
  /\ out.reply = "board"
  /\ \E k \in 1..Len(out.board) :
       /\ out.board[k].invite_count = 2
       /\ commits[out.chat][out.board[k].user_id] = 2

\* C16: credit is acknowledged only on success. The step that sends the
\* thank-you for an invited join sends it only when the increment for that
\* join has committed.
C16_AckOnlyOnCommit ==
  [][\A h \in Handlers :
       (/\ hs[h].pc = "log"
        /\ hs'[h] # hs[h]
        /\ hs'[h].reply # None) => hs[h].credited]_vars

\* C17: failed increments are recorded as unresolved. The row the handler
\* writes to the join log for an invited join whose increment did not commit
\* differs from the row it writes for a join whose inviter was credited.
C17_FailedIncrementMarked ==
  [][\A h \in Handlers :
       (/\ hs[h].pc = "log"
        /\ ~hs[h].credited
        /\ joins' # joins) =>
         joins' # LogMemberJoin(hs[h].chat, hs[h].members[hs[h].i], hs[h].from)]_vars

\* C18: read failures are explicit. A leaderboard whose scan of the counters
\* failed is not answered as a group without invites is, and statistics
\* whose scan of the join log failed are not shown as the zeros of a group
\* without joins.
C18_ReadFailureExplicit ==
  /\ (out.op = "leaderboard" /\ ~out.private /\ out.failed) =>
       out.reply \notin {"no_invites", "board"}
  /\ (out.op = "groupstats" /\ out.joins_failed) =>
       ~(out.reply = "stats" /\ out.stats = ZeroStatistics)

\* C19: no silent deletion. When the gate handler has deleted a message, it
\* has sent the notice that explains why.
C19_DeletionExplained ==
  (out.op = "message" /\ out.deleted) => out.notified

\* C20: statistics aggregate. Statistics shown after scans that succeeded
\* count the rows of the join log, the rows with an inviter, either of them
\* among the rows not older than seven days, and the users with a count
\* above 0; so no recent figure is above its total, nor the invited above
\* the members.
C20_StatisticsAggregate ==
  (out.op = "groupstats" /\ out.reply = "stats" /\ ~out.joins_failed
     /\ ~out.inviters_failed) =>
    LET g == out.chat
        rows == DOMAIN joins[g]
        invited == {r \in rows : r.invited_by # None}
        recent == {r \in rows : r.joined_at >= now - WINDOW_DAYS}
        s == out.stats
    IN
    /\ s.total_members = CountRows(g, rows)
    /\ s.total_invited = CountRows(g, invited)
    /\ s.joined_last_7 = CountRows(g, recent)
    /\ s.invited_last_7 = CountRows(g, recent \cap invited)
    /\ s.active_inviters = Cardinality({u \in Users : inviters[g][u] > 0})
    /\ s.total_invited <= s.total_members
    /\ s.joined_last_7 <= s.total_members
    /\ s.invited_last_7 <= s.total_invited

\* C21: bot joins are discarded, and only the bot's own. When the first join
\* message has been handled without a failure, its sender has one committed
\* increment for every member of it that is neither the bot itself nor the
\* sender, the log has one row for every member that is not the bot itself,
\* and no row is ever the bot's own.
C21_OnlyOwnBotDiscarded ==
  /\ \A g \in Groups : \A r \in DOMAIN joins[g] : r.user_id # Bot
  /\ \A h \in Handlers :
       (/\ hs[h].pc = "done"
        /\ delivered = Len(hs[h].members)
        /\ faults = 0
        /\ redeliveries = 0) =>
         LET ms == hs[h].members
             g == hs[h].chat
         IN
         /\ commits[g][hs[h].from] =
              Cardinality({k \in 1..Len(ms) : ms[k] \notin {Bot, hs[h].from}})
         /\ CountRows(g, DOMAIN joins[g]) =
              Cardinality({k \in 1..Len(ms) : ms[k] # Bot})

\* C22: log before credit. In every state, a handler between two of its
\* steps included, each user's count is covered by rows of the join log
\* that name the user as inviter.
C22_LogBeforeCredit ==
  \A g \in Groups, u \in Users :
    inviters[g][u] <= CountRows(g, {r \in DOMAIN joins[g] : r.invited_by = u})

\* C23: the returned count matches the store. When increment_inviter_count
\* has returned to the handler, a committed transaction has returned the
\* count it stored, which is 1 or more, and 0 is returned only when the
\* transaction did not commit.
C23_ReturnedCountMatches ==
  \A h \in Handlers :
    hs[h].pc = "log" =>
      /\ hs[h].credited =>
           /\ hs[h].new_count = inviters[hs[h].chat][hs[h].from]
           /\ hs[h].new_count >= 1
      /\ hs[h].new_count = 0 => ~hs[h].credited

\* C24: join handling creates groups and never reconfigures them. A step of
\* a join handler in a group that has a document leaves the document in
\* place with its threshold and gating flag as they were, and the first
\* step of a handler in a group without a document creates it unless a
\* store operation fails.
C24_JoinKeepsGroupConfig ==
  [][\A h \in Handlers :
       (hs'[h] # hs[h] /\ hs[h].pc \notin {"idle", "done"}) =>
         LET g == hs[h].chat IN
         /\ groups[g] # NoDoc =>
              /\ groups'[g] # NoDoc
              /\ SettingsIn(groups', g) = SettingsIn(groups, g)
         /\ (groups[g] = NoDoc /\ hs[h].pc = "ensure" /\ faults' = faults) =>
              groups'[g] # NoDoc]_vars

\* C25: counter and log agree at quiescence. When no join handler is at work
\* and no store operation has failed, each user's count is the number of
\* rows of the group's log that name the user as inviter, and the counts of
\* the group add up to the number of its rows that carry an inviter.
C25_CounterLogAgreement ==
  (Quiescent /\ faults = 0) =>
    \A g \in Groups :
      /\ \A u \in Users :
           inviters[g][u] =
             CountRows(g, {r \in DOMAIN joins[g] : r.invited_by = u})
      /\ Cardinality({<<u, k>> \in Users \X (1..MaxJoins * (MaxRedeliveries + 1)) :
                        k <= inviters[g][u]}) =
           CountRows(g, {r \in DOMAIN joins[g] : r.invited_by # None})

\* Two users have each invited one member, both joins are in the log with
\* their inviter, and the handlers are at rest.
C25_Witness ==
  /\ Quiescent
  /\ faults = 0
  /\ \E g \in Groups :
       /\ \A u \in Users : inviters[g][u] = 1
       /\ CountRows(g, {r \in DOMAIN joins[g] : r.invited_by # None}) = 2

=============================================================================
